---- MODULE Spec2Model ----
(***************************************************************************)
(* Request-scoped structured logging of the OCI business logic service:    *)
(* the correlation context (app/logging_config.py), the record formatters, *)
(* setup_logging() and the log_requests interceptor (app/main.py), and    *)
(* the suppression routes with their service and the removal script.      *)
(*                                                                         *)
(* Every JSON/text value is a string; Python's None is the token "None".   *)
(***************************************************************************)
EXTENDS Integers, Sequences, FiniteSets, TLC

\* ------------------------------------------------------------------ bounds

\* Log calls the downstream handler makes while serving one request.
MaxHandlerLogs == 1

\* ------------------------------------------------------------- input sets

\* Python's None (ContextVar default, absent client, no exception).
None == "None"

\* Concurrent request-handling units (one asyncio task per request; a unit
\* takes its next request when the previous one has ended).
Tasks == {"A", "B"}

\* The execution context outside any request (import, startup, shutdown).
Main == "main"

\* str(uuid.uuid4())[:8]: the generator is random, so any value may come out
\* for any request; two sample values.
Ids == {"ab12cd34", "ef56gh78"}

\* Inbound requests: method, path and client host (None when request.client
\* is missing).
Requests ==
    { [method |-> "GET", path |-> "/health", client |-> "10.0.0.1"],
      [method |-> "DELETE", path |-> "/api/v1/email-suppression/a@b.com",
       client |-> None] }

\* Status codes the downstream handler answers with.
StatusCodes == {"200"}

\* Messages of the exceptions the downstream handler raises.
HandlerErrors == {"boom"}

\* What call_next raises when the request's task is cancelled (client
\* disconnect, shutdown): asyncio.CancelledError, a BaseException that is
\* no Exception.
Cancellations == {"cancelled"}

\* The exception a failing logging call raises into its caller.
LogError == "LoggingError"

\* Elapsed milliseconds int((time.time() - start_time) * 1000) can read.
Durations == {"17"}

\* Values of an extra field that json.dumps cannot encode (an object()).
Unserializable == {"<object object>"}

\* ------------------------------------------------------------ dictionaries

\* dict.update / {**a, **b}: the pairs of g replace and extend those of f.
Merge(f, g) == g @@ f

\* An empty dict.
EmptyDict == [k \in {} |-> None]

\* -------------------------------------------------------- python's logging

\* logging's numeric levels, by (upper-case) attribute name of the module.
LevelNo ==
    [CRITICAL |-> 50, FATAL |-> 50, ERROR |-> 40, WARNING |-> 30, WARN |-> 30,
     INFO |-> 20, DEBUG |-> 10, NOTSET |-> 0]

\* Upper-case attributes of the logging module that are no level.
NonLevelAttrs == {"BASIC_FORMAT", "_STYLES"}

\* str.upper() on the level strings the model draws.
UpperTable ==
    [debug |-> "DEBUG", info |-> "INFO", Warning |-> "WARNING",
     error |-> "ERROR", critical |-> "CRITICAL", verbose |-> "VERBOSE",
     basic_format |-> "BASIC_FORMAT", notset |-> "NOTSET"]

Upper(s) == IF s \in DOMAIN UpperTable THEN UpperTable[s] ELSE s

\* str.lower() on the format strings the model draws.
LowerTable == [JSON |-> "json", Json |-> "json", TEXT |-> "text", XML |-> "xml"]

Lower(s) == IF s \in DOMAIN LowerTable THEN LowerTable[s] ELSE s

\* ----------------------------------------------------------- configuration

\* ENVIRONMENT_CONFIGS: the logging part of each environment's defaults.
ENVIRONMENT_CONFIGS ==
    [development |-> [log_level |-> "DEBUG", log_format |-> "text"],
     staging |-> [log_level |-> "INFO", log_format |-> "json"],
     production |-> [log_level |-> "INFO", log_format |-> "json"]]

\* Settings.__init__: the environment's defaults fill log_level and
\* log_format unless an environment variable gave a non-empty value.
\* raised stands for the ValueError of an unknown environment.
SettingsInit(environment, log_level, log_format) ==
    IF environment \notin DOMAIN ENVIRONMENT_CONFIGS
    THEN [raised |-> TRUE, log_level |-> log_level, log_format |-> log_format]
    ELSE [raised |-> FALSE,
          log_level |-> IF log_level = "" THEN ENVIRONMENT_CONFIGS[environment].log_level
                        ELSE log_level,
          log_format |-> IF log_format = "" THEN ENVIRONMENT_CONFIGS[environment].log_format
                         ELSE log_format]

\* The state of Python's logging module right after import: the root logger
\* at WARNING with no handler, every other logger at NOTSET.
LoggingDefault ==
    [rootLevel |-> LevelNo.WARNING, handlers |-> << >>,
     uvicorn_access |-> LevelNo.NOTSET, uvicorn_error |-> LevelNo.NOTSET]

\* getattr(logging, settings.log_level.upper(), logging.INFO): the level of
\* that name, INFO when the module has no such attribute, and whatever else
\* the module keeps under that name otherwise (kind "other").
GetLogLevel(log_level) ==
    IF Upper(log_level) \in DOMAIN LevelNo THEN [kind |-> "int", level |-> LevelNo[Upper(log_level)]]
    ELSE IF Upper(log_level) \in NonLevelAttrs THEN [kind |-> "other", level |-> 0]
    ELSE [kind |-> "int", level |-> LevelNo.INFO]

\* A choice that compares the format value as it is written.
ChooseFormatter_CaseSensitive(log_format) ==
    IF log_format = "json" THEN "JSONFormatter" ELSE "TextFormatter"

\* The formatter setup_logging() chooses.
ChooseFormatter(log_format) ==
    IF Lower(log_format) = "json" THEN "JSONFormatter" ELSE "TextFormatter"

\* A setup that sets the level of the new handler only and leaves the root
\* logger at the level it had.
SetupLogging_HandlerLevelOnly(lg, s) ==
    IF GetLogLevel(s.log_level).kind # "int"
    THEN [raised |-> TRUE, logging |-> lg]
    ELSE [raised |-> FALSE,
          logging |->
            [rootLevel |-> lg.rootLevel,
             handlers |-> << [level |-> GetLogLevel(s.log_level).level,
                              formatter |-> ChooseFormatter(s.log_format)] >>,
             uvicorn_access |-> LevelNo.WARNING,
             uvicorn_error |-> LevelNo.INFO]]

\* setup_logging(): computes level and formatter, sets the root level
\* (setLevel raises for a value that is no level, before anything changed),
\* clears the root handlers, adds one stdout handler, sets the uvicorn levels.
SetupLogging(lg, s) ==
    IF GetLogLevel(s.log_level).kind # "int"
    THEN [raised |-> TRUE, logging |-> lg]
    ELSE [raised |-> FALSE,
          logging |->
            [rootLevel |-> GetLogLevel(s.log_level).level,
             handlers |-> << [level |-> GetLogLevel(s.log_level).level,
                              formatter |-> ChooseFormatter(s.log_format)] >>,
             uvicorn_access |-> LevelNo.WARNING,
             uvicorn_error |-> LevelNo.INFO]]

\* ------------------------------------------------------------- log records

\* Logger names: the application's modules and the third-party channels.
AppLoggers == {"app.main", "app.services.oci_email_suppression"}

LibLoggers == {"uvicorn.access", "uvicorn.error"}

\* Logger.getEffectiveLevel(): the logger's own level when set, else the
\* level of the nearest ancestor that has one (here the root logger).
GetEffectiveLevel(lg, name) ==
    IF name = "uvicorn.access" /\ lg.uvicorn_access # LevelNo.NOTSET THEN lg.uvicorn_access
    ELSE IF name = "uvicorn.error" /\ lg.uvicorn_error # LevelNo.NOTSET THEN lg.uvicorn_error
    ELSE lg.rootLevel

\* Logger.isEnabledFor(level).
IsEnabledFor(lg, name, levelno) == levelno >= GetEffectiveLevel(lg, name)

\* Keyword arguments of a plain Logger call: the extra mapping and exc_info
\* (the message of the exception being handled, None without exc_info).
Kwargs(extra, exc_info) ==
    [extra |-> extra, extra_fields |-> << >>, exc_info |-> exc_info]

\* LoggerAdapter.process of app.logging_config: a missing extra becomes {}
\* (Kwargs stands for both), a copy of extra is stored under its key
\* 'extra_fields'; the context the adapter was created with (self.extra) is
\* not read.
LoggerAdapterProcess(context, kwargs) ==
    [kwargs EXCEPT !.extra_fields = << kwargs.extra >>]

\* Attribute names Logger.makeRecord() refuses in extra: "message",
\* "asctime" and the attributes a LogRecord already has.
ReservedAttrs ==
    {"message", "asctime", "name", "msg", "args", "levelname", "levelno",
     "pathname", "filename", "module", "exc_info", "exc_text", "stack_info",
     "lineno", "funcName", "created", "msecs", "relativeCreated", "thread",
     "threadName", "processName", "process"}

\* Logger.makeRecord() raises KeyError ("Attempt to overwrite ...") when a
\* key of extra is one of those names.
MakeRecordRaises(kwargs) == \E k \in DOMAIN kwargs.extra : k \in ReservedAttrs

\* Logger.makeRecord(): every key of extra becomes an attribute of the
\* record; extra_fields is an attribute only when extra holds that key.
MakeRecord(name, levelname, msg, kwargs) ==
    [name |-> name, levelname |-> levelname, levelno |-> LevelNo[levelname],
     msg |-> msg, attrs |-> kwargs.extra, extra_fields |-> kwargs.extra_fields,
     exc_info |-> kwargs.exc_info]

\* datetime.now(timezone.utc).isoformat() and the text formatter's asctime.
NowIso == "2026-10-29T12:00:00+00:00"

NowText == "2026-10-29 12:00:00"

\* The traceback of the exception being handled, line by line; the last line
\* names the exception's message.
TracebackOf(e) ==
    << "Traceback (most recent call last):", "  File ...", "Exception: " \o e >>

\* "\n".join(lines).
RECURSIVE JoinLines(_)
JoinLines(ls) ==
    IF Len(ls) = 0 THEN ""
    ELSE IF Len(ls) = 1 THEN ls[1]
    ELSE ls[1] \o "\n" \o JoinLines(Tail(ls))

\* Formatter.formatException(): the rendered traceback text.
FormatException(e) == JoinLines(TracebackOf(e))

\* -------------------------------------------------- correlation context

\* A module-level global in place of the ContextVar: one value for every
\* context, so a set in one task is what every task reads.
Set_request_id_Global(c, t, id) == [u \in DOMAIN c |-> id]

\* request_id_var.set(request_id) in the context of task t: a ContextVar
\* holds one value per execution context, so only t's value changes.
Set_request_id(c, t, id) == [c EXCEPT ![t] = id]

\* request_id_var.set(None) in the context of task t.
Clear_request_id(c, t) == [c EXCEPT ![t] = None]

\* request_id_var.get() in the context of task t (default None).
Get_request_id(c, t) == c[t]

\* --------------------------------------------------------------- formatters

\* A formatter that reads the identifier only from the record's own
\* attributes and so never finds the ambient one.
WithRequestId_NotAmbient(log_data, rid) == log_data

\* The part of JSONFormatter.format that reads the ambient identifier:
\* "if request_id:" keeps it out of the record when it is None or empty.
WithRequestId(log_data, rid) ==
    IF rid # None /\ rid # "" THEN Merge(log_data, [request_id |-> rid]) ELSE log_data

\* The part of JSONFormatter.format that merges the extra fields: only a
\* record that has an extra_fields attribute contributes any.
WithExtraFields(log_data, record) ==
    IF record.extra_fields # << >> THEN Merge(log_data, record.extra_fields[1])
    ELSE log_data

\* The part of JSONFormatter.format that adds the exception text.
WithException(log_data, record) ==
    IF record.exc_info # None
    THEN Merge(log_data, [exception |-> FormatException(record.exc_info)])
    ELSE log_data

\* The dict JSONFormatter.format builds before it serialises it.
LogData(record, rid) ==
    WithException(
        WithExtraFields(
            WithRequestId(
                [timestamp |-> NowIso, level |-> record.levelname,
                 logger |-> record.name, message |-> record.msg], rid),
            record),
        record)

\* json.dumps(log_data) raises TypeError when a value is of a type the
\* encoder does not know; None is serialised as null.
JsonDumpsRaises(log_data) == \E k \in DOMAIN log_data : log_data[k] \in Unserializable

\* JSONFormatter.format: the object handed to json.dumps, which serialises
\* it on one line (json.dumps escapes the newlines inside its strings).
JSONFormat(record, rid) ==
    [fmt |-> "json", obj |-> LogData(record, rid), text |-> "", lines |-> 1]

\* TextFormatter: '%(asctime)s - %(name)s - %(levelname)s - %(message)s';
\* logging.Formatter.format appends a newline and the traceback text when
\* the record carries exception information.
TextFormat(record) ==
    [fmt |-> "text",
     obj |-> EmptyDict,
     text |-> NowText \o " - " \o record.name \o " - " \o record.levelname \o " - "
              \o record.msg
              \o (IF record.exc_info # None THEN "\n" \o FormatException(record.exc_info)
                  ELSE ""),
     lines |-> IF record.exc_info # None THEN 1 + Len(TracebackOf(record.exc_info)) ELSE 1]

\* Handler.format with the formatter setup_logging() installed.
FormatWith(formatter, record, rid) ==
    IF formatter = "JSONFormatter" THEN JSONFormat(record, rid) ELSE TextFormat(record)

\* Whether formatting a record to this line raises: only the JSON
\* formatter's final json.dumps can.
FormatRaises(line) == line.fmt = "json" /\ JsonDumpsRaises(line.obj)

\* StreamHandler.emit(): formats the record and writes the result and a
\* newline to stdout; an exception of the formatter is caught there and
\* reported on stderr (Handler.handleError), and nothing reaches stdout.
Emit(formatter, record, rid) ==
    SelectSeq(<< FormatWith(formatter, record, rid) >>,
              LAMBDA line : ~FormatRaises(line))

\* Logger.callHandlers(): every root handler whose level admits the record
\* emits it, in handler order. With no handler at all logging.lastResort
\* writes to stderr, not stdout.
RECURSIVE CallHandlers(_, _, _)
CallHandlers(handlers, record, rid) ==
    IF Len(handlers) = 0 THEN << >>
    ELSE (IF record.levelno >= Head(handlers).level
          THEN Emit(Head(handlers).formatter, record, rid)
          ELSE << >>)
         \o CallHandlers(Tail(handlers), record, rid)

\* logger.debug/info/warning/error(msg, extra=..., exc_info=...) on the
\* logger called name, from a context whose identifier is rid: what the call
\* appends to stdout.
LoggerCall(lg, name, levelname, msg, kwargs, rid) ==
    IF IsEnabledFor(lg, name, LevelNo[levelname]) /\ ~MakeRecordRaises(kwargs)
    THEN CallHandlers(lg.handlers, MakeRecord(name, levelname, msg, kwargs), rid)
    ELSE << >>

\* Whether that call raises into its caller: a level that is enabled gets
\* as far as makeRecord(), whose KeyError nothing catches.
LoggerCallRaises(lg, name, levelname, kwargs) ==
    IsEnabledFor(lg, name, LevelNo[levelname]) /\ MakeRecordRaises(kwargs)

\* ------------------------------------------------------------------- state

VARIABLES
    settings,     \* app.config.settings: log_level and log_format
    logging,      \* the logging module's state: root level, root handlers, uvicorn levels
    out,          \* sys.stdout, by writer: the entries written for the task's current
                  \* request (by Main: since the process started), in order, each
                  \* with the call that made it
    pc,           \* per task: where its log_requests call stands
    ctx,          \* per task: the value of request_id_var in the task's context
    request,      \* per task: the request being handled
    request_id,   \* per task: the local request_id of log_requests
    response,     \* per task: the status code of the handler's response
    exc,          \* per task: the exception in flight or propagated to the caller
    handlerExc,   \* per task: the exception the downstream handler raised
    clears,       \* per task: clear_request_id() calls made for the current request
    hlogs,        \* per task: log calls the handler made for the current request
    setupCalls,   \* setup_logging() calls made so far
    configured,   \* the settings of the latest setup_logging() call that completed
    lastLog,      \* the latest log call since the configuration last changed
    call,         \* the latest log call made through the module's public functions
    suppressions, \* the provider's suppression list: per address, its entries
    apiCalls,     \* the provider calls the latest route execution made, in order
    svcResult,    \* the outcome of the latest route execution
    script        \* per run of script.py: where main() stands and what it did

\* What the request handling owns.
reqVars ==
    << pc, ctx, request, request_id, response, exc, handlerExc, clears, hlogs >>

\* What records the configuration calls and the calls checked against them.
setupVars == << setupCalls, configured, lastLog >>

\* What records a log call made directly through app.logging_config.
logVars == << call >>

\* What the suppression routes own, the provider's list included.
svcVars == << suppressions, apiCalls, svcResult, script >>

vars ==
    << settings, logging, out, pc, ctx, request, request_id, response, exc,
       handlerExc, clears, hlogs, setupCalls, configured, lastLog, call,
       suppressions, apiCalls, svcResult, script >>

\* Environment, LOG_LEVEL and LOG_FORMAT the service is started with.
StartupInputs ==
    { << "development", "", "" >>, << "production", "", "" >>,
      << "production", "critical", "" >> }

\* No log call yet.
NoLog == [logger |-> None, levelname |-> None, wrote |-> 0]

\* No request in the task.
NoRequest == [method |-> None, path |-> None, client |-> None]

\* No direct log call yet.
NoCall ==
    [via |-> None, levelname |-> None, context |-> EmptyDict, extra |-> EmptyDict,
     exc_info |-> None, rid |-> None, raised |-> FALSE, wrote |-> << >>]

\* Addresses the suppression routes are asked about.
Emails == {"a@b.com", "c@d.org"}

\* A provider list without any entry.
NoSuppressions == [e \in Emails |-> << >>]

\* No route execution yet.
NoResult ==
    [route |-> None, email |-> None, status |-> None, logs |-> << >>,
     wasSuppressed |-> FALSE, listFails |-> FALSE, deleteFails |-> FALSE]

\* Runs of script.py, each a process of its own.
ScriptRuns == {"r1", "r2"}

\* A run of script.py that has not started.
NoScript ==
    [pc |-> "idle", email |-> None, exit |-> None, calls |-> << >>, logs |-> << >>]

\* ------------------------------------------------- log_requests, stepwise

\* extra of the "Request received" call.
ReceivedExtra(req) ==
    [method |-> req.method, path |-> req.path, client_host |-> req.client]

\* extra of the "Request completed" call.
CompletedExtra(req, status, d) ==
    [method |-> req.method, path |-> req.path, status_code |-> status, duration_ms |-> d]

\* extra of the "Request failed" call.
FailedExtra(req, d, e) ==
    [method |-> req.method, path |-> req.path, duration_ms |-> d, error |-> e]

\* extra of the service's "Checking suppression status" call.
ServiceExtra(email) == [email |-> email]

\* The entries a call wrote, each with the call's logger, level and extras.
Tagged(entries, name, levelname, kwargs) ==
    [i \in 1..Len(entries) |->
        [rec |-> entries[i], logger |-> name, levelname |-> levelname,
         extra |-> kwargs.extra]]

\* Where control goes after the "Request received" call: the call stands
\* before the try statement, so its exception leaves log_requests at once.
AfterReceivedLog(fails) == IF fails THEN "raised" ELSE "call_next"

\* "except Exception as e": whether the clause catches what the try body
\* raised.
CaughtByExcept(e) == e \notin Cancellations

\* The exception that leaves the except clause: the bare raise re-raises e,
\* unless the "Request failed" call raised first.
ExcAfterFailedLog(e, fails) == IF fails THEN LogError ELSE e

\* An except clause that waits for a retry instead of re-raising: the
\* request stays where it is.
AfterTry_Retry(raising) == IF raising THEN "retrying" ELSE "returned"

\* How log_requests ends once its try statement is left and the finally
\* clause has run: the pending raise propagates, or the response is returned.
AfterTry(raising) == IF raising THEN "raised" ELSE "returned"

\* The finally clause: clear_request_id() in the context of task t.
FinallyClause(c, t) == Clear_request_id(c, t)

\* What logger.info("Request received", extra={...}) writes.
ReceivedEntries(lg, req, rid) ==
    Tagged(LoggerCall(lg, "app.main", "INFO", "Request received",
                      Kwargs(ReceivedExtra(req), None), rid),
           "app.main", "INFO", Kwargs(ReceivedExtra(req), None))

\* What logger.info("Request completed", extra={...}) writes.
CompletedEntries(lg, req, status, d, rid) ==
    Tagged(LoggerCall(lg, "app.main", "INFO", "Request completed",
                      Kwargs(CompletedExtra(req, status, d), None), rid),
           "app.main", "INFO", Kwargs(CompletedExtra(req, status, d), None))

\* What logger.error(f"Request failed: {str(e)}", extra={...}, exc_info=True)
\* writes.
FailedEntries(lg, req, d, e, rid) ==
    Tagged(LoggerCall(lg, "app.main", "ERROR", "Request failed: " \o e,
                      Kwargs(FailedExtra(req, d, e), e), rid),
           "app.main", "ERROR", Kwargs(FailedExtra(req, d, e), e))

\* What the service's logger.info("Checking suppression status", ...) writes.
ServiceEntries(lg, email, rid) ==
    Tagged(LoggerCall(lg, "app.services.oci_email_suppression", "INFO",
                      "Checking suppression status",
                      Kwargs(ServiceExtra(email), None), rid),
           "app.services.oci_email_suppression", "INFO",
           Kwargs(ServiceExtra(email), None))

\* log_requests up to "await call_next(request)", which is its only await:
\* a request arrives in a task of its own, whose context starts as a copy of
\* the server's (no identifier); the interceptor draws an identifier,
\* installs it and logs "Request received". A logging call that raises
\* (fails) leaves log_requests here, before the try statement.
Enter(t) ==
    /\ pc[t] \in {"idle", "returned", "raised"}
    /\ \E req \in Requests, id \in Ids, fails \in BOOLEAN :
        /\ request' = [request EXCEPT ![t] = req]
        /\ request_id' = [request_id EXCEPT ![t] = id]
        /\ ctx' = Set_request_id([ctx EXCEPT ![t] = None], t, id)
        /\ out' = [out EXCEPT ![t] =
                    IF fails THEN << >>
                    ELSE ReceivedEntries(logging, req,
                            Get_request_id(Set_request_id([ctx EXCEPT ![t] = None], t, id), t))]
        /\ pc' = [pc EXCEPT ![t] = AfterReceivedLog(fails)]
        /\ exc' = [exc EXCEPT ![t] = IF fails THEN LogError ELSE None]
    /\ response' = [response EXCEPT ![t] = None]
    /\ handlerExc' = [handlerExc EXCEPT ![t] = None]
    /\ clears' = [clears EXCEPT ![t] = 0]
    /\ hlogs' = [hlogs EXCEPT ![t] = 0]
    /\ UNCHANGED << setupVars, logVars, svcVars >>
    /\ UNCHANGED << settings, logging >>

\* A log call of the downstream handler (the service's "Checking suppression
\* status"), made in the request's context while call_next is awaited.
HandlerLog(t) ==
    /\ pc[t] = "call_next"
    /\ hlogs[t] < MaxHandlerLogs
    /\ hlogs' = [hlogs EXCEPT ![t] = @ + 1]
    /\ out' = [out EXCEPT ![t] =
                @ \o ServiceEntries(logging, "a@b.com", Get_request_id(ctx, t))]
    /\ UNCHANGED << setupVars, logVars, svcVars >>
    /\ UNCHANGED << settings, logging, pc, ctx, request, request_id, response,
                    exc, handlerExc, clears >>

\* A downstream handler that switches the root logger to DEBUG before it
\* answers.
HandlerReturn_SetLevel(t) ==
    /\ pc[t] = "call_next"
    /\ \E status \in StatusCodes : response' = [response EXCEPT ![t] = status]
    /\ pc' = [pc EXCEPT ![t] = "log_done"]
    /\ logging' = [logging EXCEPT !.rootLevel = LevelNo.DEBUG]
    /\ UNCHANGED << setupVars, logVars, svcVars >>
    /\ UNCHANGED << settings, out, ctx, request, request_id, exc, handlerExc, clears,
                    hlogs >>

\* The downstream handler answers; log_requests resumes in a later step.
HandlerReturn(t) ==
    /\ pc[t] = "call_next"
    /\ \E status \in StatusCodes : response' = [response EXCEPT ![t] = status]
    /\ pc' = [pc EXCEPT ![t] = "log_done"]
    /\ UNCHANGED << setupVars, logVars, svcVars >>
    /\ UNCHANGED << settings, logging, out, ctx, request, request_id, exc,
                    handlerExc, clears, hlogs >>

\* The downstream handler raises; log_requests resumes in a later step.
HandlerRaise(t) ==
    /\ pc[t] = "call_next"
    /\ \E e \in HandlerErrors \cup Cancellations :
        /\ exc' = [exc EXCEPT ![t] = e]
        /\ handlerExc' = [handlerExc EXCEPT ![t] = e]
    /\ pc' = [pc EXCEPT ![t] = "log_fail"]
    /\ UNCHANGED << setupVars, logVars, svcVars >>
    /\ UNCHANGED << settings, logging, out, ctx, request, request_id, response,
                    clears, hlogs >>

\* log_requests from the return of call_next to its end: duration_ms,
\* logger.info("Request completed"), return response, finally. When the
\* logging call raises (fails), "except Exception" catches that exception,
\* logs "Request failed" for it (which may raise too, failsAgain) and
\* re-raises; the finally clause runs on either way out.
Complete(t) ==
    /\ pc[t] = "log_done"
    /\ \E fails \in BOOLEAN, failsAgain \in BOOLEAN, d \in Durations :
        IF fails
        THEN /\ out' = IF failsAgain THEN out
                       ELSE [out EXCEPT ![t] =
                                @ \o FailedEntries(logging, request[t], d, LogError,
                                                   Get_request_id(ctx, t))]
             /\ exc' = [exc EXCEPT ![t] = ExcAfterFailedLog(LogError, failsAgain)]
             /\ pc' = [pc EXCEPT ![t] = AfterTry(TRUE)]
        ELSE /\ ~failsAgain
             /\ out' = [out EXCEPT ![t] =
                            @ \o CompletedEntries(logging, request[t], response[t], d,
                                                  Get_request_id(ctx, t))]
             /\ exc' = exc
             /\ pc' = [pc EXCEPT ![t] = AfterTry(FALSE)]
    /\ ctx' = FinallyClause(ctx, t)
    /\ clears' = [clears EXCEPT ![t] = @ + 1]
    /\ UNCHANGED << setupVars, logVars, svcVars >>
    /\ UNCHANGED << settings, logging, request, request_id, response,
                    handlerExc, hlogs >>

\* log_requests from the exception of call_next to its end: when "except
\* Exception" catches it, the clause computes duration_ms, logs "Request
\* failed" with exc_info and re-raises; an exception it does not catch
\* passes the clause by. Then the finally clause.
Fail(t) ==
    /\ pc[t] = "log_fail"
    /\ \E fails \in BOOLEAN, d \in Durations :
        IF CaughtByExcept(exc[t])
        THEN /\ out' = IF fails THEN out
                       ELSE [out EXCEPT ![t] =
                                @ \o FailedEntries(logging, request[t], d, exc[t],
                                                   Get_request_id(ctx, t))]
             /\ exc' = [exc EXCEPT ![t] = ExcAfterFailedLog(exc[t], fails)]
        ELSE /\ ~fails
             /\ out' = out
             /\ exc' = exc
    /\ pc' = [pc EXCEPT ![t] = AfterTry(TRUE)]
    /\ ctx' = FinallyClause(ctx, t)
    /\ clears' = [clears EXCEPT ![t] = @ + 1]
    /\ UNCHANGED << setupVars, logVars, svcVars >>
    /\ UNCHANGED << settings, logging, request, request_id, response,
                    handlerExc, hlogs >>

\* The service as started by app.main: settings loaded, setup_logging() run
\* at import, no request yet.
Init ==
    /\ \E i \in StartupInputs :
        /\ settings = SettingsInit(i[1], i[2], i[3])
        /\ logging = SetupLogging(LoggingDefault, SettingsInit(i[1], i[2], i[3])).logging
    /\ out = [w \in Tasks \cup {Main} |-> << >>]
    /\ pc = [t \in Tasks |-> "idle"]
    /\ ctx = [t \in Tasks |-> None]
    /\ request = [t \in Tasks |-> NoRequest]
    /\ request_id = [t \in Tasks |-> None]
    /\ response = [t \in Tasks |-> None]
    /\ exc = [t \in Tasks |-> None]
    /\ handlerExc = [t \in Tasks |-> None]
    /\ clears = [t \in Tasks |-> 0]
    /\ hlogs = [t \in Tasks |-> 0]
    /\ setupCalls = 1
    /\ configured = settings
    /\ lastLog = NoLog
    /\ call = NoCall
    /\ suppressions = NoSuppressions
    /\ apiCalls = << >>
    /\ svcResult = NoResult
    /\ script = [r \in ScriptRuns |-> NoScript]

Next ==
    \E t \in Tasks :
        \/ Enter(t)
        \/ HandlerLog(t)
        \/ HandlerReturn(t)
        \/ HandlerRaise(t)
        \/ Complete(t)
        \/ Fail(t)

Spec == Init /\ [][Next]_vars

\* --------------------------------------------- configuration, call by call

\* setup_logging() calls in one behaviour.
MaxSetupCalls == 2

\* Entries written to stdout outside requests in one behaviour.
MaxLines == 1

\* LOG_LEVEL and LOG_FORMAT values of the environment ("" when unset).
LevelInputs ==
    {"", "DEBUG", "info", "Warning", "ERROR", "critical", "verbose", "basic_format"}

FormatInputs == {"", "json", "JSON", "text", "xml"}

\* Severities of the logging entry points debug/info/warning/error.
EventLevels == {"DEBUG", "INFO", "WARNING", "ERROR"}

\* The settings objects Settings() can come out as.
SettingsInputs ==
    { [log_level |-> SettingsInit(e, l, f).log_level,
       log_format |-> SettingsInit(e, l, f).log_format] :
        e \in {"development", "production"}, l \in LevelInputs, f \in FormatInputs }

\* No setup_logging() call completed yet.
NoSettings == [log_level |-> None, log_format |-> None]

\* setup_logging() is called with the settings s in force.
Setup ==
    /\ setupCalls < MaxSetupCalls
    /\ \E s \in SettingsInputs :
        /\ settings' = s
        /\ logging' = SetupLogging(logging, s).logging
        /\ configured' = IF SetupLogging(logging, s).raised THEN configured ELSE s
        /\ lastLog' = IF SetupLogging(logging, s).raised THEN lastLog ELSE NoLog
    /\ setupCalls' = setupCalls + 1
    /\ UNCHANGED << out, reqVars, logVars, svcVars >>

\* A log call outside any request: logger name, one of debug/info/warning/
\* error, a message and no extras.
AppLog ==
    /\ Len(out[Main]) < MaxLines
    /\ \E name \in AppLoggers \cup LibLoggers, levelname \in EventLevels :
        /\ out' = [out EXCEPT ![Main] =
                    @ \o Tagged(LoggerCall(logging, name, levelname, "started",
                                           Kwargs(EmptyDict, None), None),
                                name, levelname, Kwargs(EmptyDict, None))]
        /\ lastLog' =
            [logger |-> name, levelname |-> levelname,
             wrote |-> Len(LoggerCall(logging, name, levelname, "started",
                                      Kwargs(EmptyDict, None), None))]
    /\ UNCHANGED << settings, logging, setupCalls, configured, reqVars, logVars,
                    svcVars >>

\* The process right after importing app.logging_config: logging in its
\* default state, setup_logging() not called yet.
InitSetup ==
    /\ settings \in SettingsInputs
    /\ logging = LoggingDefault
    /\ out = [w \in Tasks \cup {Main} |-> << >>]
    /\ pc = [t \in Tasks |-> "idle"]
    /\ ctx = [t \in Tasks |-> None]
    /\ request = [t \in Tasks |-> NoRequest]
    /\ request_id = [t \in Tasks |-> None]
    /\ response = [t \in Tasks |-> None]
    /\ exc = [t \in Tasks |-> None]
    /\ handlerExc = [t \in Tasks |-> None]
    /\ clears = [t \in Tasks |-> 0]
    /\ hlogs = [t \in Tasks |-> 0]
    /\ setupCalls = 0
    /\ configured = NoSettings
    /\ lastLog = NoLog
    /\ call = NoCall
    /\ suppressions = NoSuppressions
    /\ apiCalls = << >>
    /\ svcResult = NoResult
    /\ script = [r \in ScriptRuns |-> NoScript]

NextSetup == Setup \/ AppLog

SpecSetup == InitSetup /\ [][NextSetup]_vars

\* --------------------------------- direct calls of app.logging_config

\* Context fields given to get_logger_with_context(name, **context).
ContextInputs ==
    { EmptyDict, [email |-> "ctx@x.com"],
      [email |-> "ctx@x.com", operation |-> "remove"] }

\* extra mappings of a log call: none, a plain field, a value json.dumps
\* cannot encode, and fields named like the formatter's own keys.
ExtraInputs ==
    { EmptyDict, [email |-> "a@b.com"], [payload |-> "<object object>"],
      [request_id |-> None], [request_id |-> "forged"],
      [level |-> "FORGED", logger |-> "forged", timestamp |-> "never"],
      [message |-> "forged"], [exception |-> "forged"] }

\* The exception being handled at a call with exc_info=True (None: no
\* exc_info).
ExcInputs == {None, "boom"}

\* Levels of the direct calls.
CallLevels == {"INFO", "ERROR"}

\* set_request_id(id) called in the context of task t.
SetRequestId(t) ==
    /\ \E id \in Ids : ctx' = Set_request_id(ctx, t, id)
    /\ UNCHANGED << settings, logging, out, pc, request, request_id, response, exc,
                    handlerExc, clears, hlogs, setupVars, logVars, svcVars >>

\* clear_request_id() called in the context of task t.
ClearRequestId(t) ==
    /\ ctx' = Clear_request_id(ctx, t)
    /\ UNCHANGED << settings, logging, out, pc, request, request_id, response, exc,
                    handlerExc, clears, hlogs, setupVars, logVars, svcVars >>

\* get_logger(name).info/error(msg, extra=..., exc_info=...) in the context
\* of task t.
LogPlain(t) ==
    /\ \E levelname \in CallLevels, extra \in ExtraInputs, e \in ExcInputs :
        call' = [via |-> "plain", levelname |-> levelname, context |-> EmptyDict,
                 extra |-> extra, exc_info |-> e, rid |-> Get_request_id(ctx, t),
                 raised |-> LoggerCallRaises(logging, "app.main", levelname,
                                             Kwargs(extra, e)),
                 wrote |-> LoggerCall(logging, "app.main", levelname, "event",
                                      Kwargs(extra, e), Get_request_id(ctx, t))]
    /\ UNCHANGED << settings, logging, out, reqVars, setupVars, svcVars >>

\* get_logger_with_context(name, **context).info/error(msg, extra=...,
\* exc_info=...) in the context of task t: LoggerAdapter.log passes the
\* keyword arguments through process() and on to the logger.
LogAdapter(t) ==
    /\ \E context \in ContextInputs, levelname \in CallLevels, extra \in ExtraInputs,
          e \in ExcInputs :
        call' = [via |-> "adapter", levelname |-> levelname, context |-> context,
                 extra |-> extra, exc_info |-> e, rid |-> Get_request_id(ctx, t),
                 raised |-> LoggerCallRaises(logging, "app.main", levelname,
                                             LoggerAdapterProcess(context, Kwargs(extra, e))),
                 wrote |-> LoggerCall(logging, "app.main", levelname, "event",
                                      LoggerAdapterProcess(context, Kwargs(extra, e)),
                                      Get_request_id(ctx, t))]
    /\ UNCHANGED << settings, logging, out, reqVars, setupVars, svcVars >>

\* The service configured as at startup, no request in flight.
InitLog == Init

NextLog ==
    \E t \in Tasks :
        \/ SetRequestId(t)
        \/ ClearRequestId(t)
        \/ LogPlain(t)
        \/ LogAdapter(t)

SpecLog == InitLog /\ [][NextLog]_vars

\* ------------------------------------------------- suppression routes

\* Entries the provider keeps for one address.
MaxEntries == 2

\* Reasons the provider gives for a suppression.
Reasons == {"HARDBOUNCE"}

\* The fields of the Settings class.
SettingsFields ==
    {"environment", "parent_tenancy_ocid", "oci_region", "api_title", "api_version",
     "api_description", "log_level", "log_format"}

\* The attribute of settings check_suppression() reads for the compartment.
TenancyAttr == "oci_tenancy_ocid"

\* A provider call as apiCalls records it: operation, argument, whether it
\* raised ServiceError, and the response.data it returned.
ApiCall(op, arg, failed, data) ==
    [op |-> op, arg |-> arg, failed |-> failed, data |-> data]

\* A choice of the last entry of the listing.
FirstEntry_Last(data) == data[Len(data)]

\* suppression = response.data[0].
FirstEntry(data) == data[1]

\* The result dict of check_suppression(): suppression is << >> for None.
CheckResult(email, data) ==
    IF Len(data) = 0
    THEN [email |-> email, is_suppressed |-> FALSE, suppression |-> << >>]
    ELSE [email |-> email, is_suppressed |-> TRUE, suppression |-> << FirstEntry(data) >>]

\* EmailSuppressionService.check_suppression(email) against the provider
\* list sup: the log messages written, the provider calls made, the
\* exception raised (None: returned) and the result. Reading
\* settings.<TenancyAttr> raises AttributeError when Settings has no such
\* field; "except ServiceError" does not catch it.
CheckSuppression(sup, email, listFails) ==
    IF TenancyAttr \notin SettingsFields
    THEN [raised |-> "AttributeError", calls |-> << >>,
          logs |-> << "Checking suppression status" >>,
          result |-> CheckResult(email, << >>)]
    ELSE IF listFails
    THEN [raised |-> "ServiceError",
          calls |-> << ApiCall("list_suppressions", email, TRUE, << >>) >>,
          logs |-> << "Checking suppression status",
                      "Calling OCI API: list_suppressions",
                      "OCI API error while checking suppression" >>,
          result |-> CheckResult(email, << >>)]
    ELSE [raised |-> None,
          calls |-> << ApiCall("list_suppressions", email, FALSE, sup[email]) >>,
          logs |-> << "Checking suppression status",
                      "Calling OCI API: list_suppressions",
                      IF Len(sup[email]) = 0 THEN "Email not in suppression list"
                      ELSE "Email found in suppression list" >>,
          result |-> CheckResult(email, sup[email])]

\* The provider's delete_suppression(id): the entry of that id leaves the
\* list.
DeleteSuppression(sup, id) ==
    [e \in DOMAIN sup |-> SelectSeq(sup[e], LAMBDA x : x.id # id)]

\* EmailSuppressionService.remove_suppression(email): check first; an
\* exception of the check propagates, a not-suppressed address raises
\* ValueError, otherwise delete_suppression is called with the id of the
\* entry the check returned.
RemoveSuppression(sup, email, listFails, deleteFails) ==
    LET chk == CheckSuppression(sup, email, listFails)
    IN  IF chk.raised # None
        THEN [raised |-> chk.raised, calls |-> chk.calls,
              logs |-> << "Removing suppression" >> \o chk.logs, suppressions |-> sup]
        ELSE IF ~chk.result.is_suppressed
        THEN [raised |-> "ValueError", calls |-> chk.calls,
              logs |-> << "Removing suppression" >> \o chk.logs
                       \o << "Cannot remove - email not in suppression list" >>,
              suppressions |-> sup]
        ELSE IF deleteFails
        THEN [raised |-> "ServiceError",
              calls |-> chk.calls
                        \o << ApiCall("delete_suppression", chk.result.suppression[1].id,
                                       TRUE, << >>) >>,
              logs |-> << "Removing suppression" >> \o chk.logs
                       \o << "Found suppression entry - proceeding with deletion",
                             "Calling OCI API: delete_suppression",
                             "OCI API error while removing suppression" >>,
              suppressions |-> sup]
        ELSE [raised |-> None,
              calls |-> chk.calls
                        \o << ApiCall("delete_suppression", chk.result.suppression[1].id,
                                       FALSE, << >>) >>,
              logs |-> << "Removing suppression" >> \o chk.logs
                       \o << "Found suppression entry - proceeding with deletion",
                             "Calling OCI API: delete_suppression",
                             "Successfully removed suppression" >>,
              suppressions |-> DeleteSuppression(sup, chk.result.suppression[1].id)]

\* The DELETE route's mapping of the service's outcome to an HTTP status.
RemoveRouteStatus(raised) ==
    IF raised = None THEN "200"
    ELSE IF raised = "ValueError" THEN "404"
    ELSE "500"

\* The GET route's mapping of the service's outcome to an HTTP status.
CheckRouteStatus(raised) == IF raised = None THEN "200" ELSE "500"

\* Command lines of script.py: the arguments after the script's name.
ScriptArgv ==
    { << >>, << "a@b.com" >>, << " c@d.org " >>, << "nobody" >>, << "a@b" >>,
      << "a@b.com", "c@d.org" >> }

\* str.strip() on the arguments drawn.
Strip(s) == IF s = " c@d.org " THEN "c@d.org" ELSE s

\* '"@" in email' and '"." in email' on the arguments drawn.
HasAt(s) == s \in Emails \cup {"a@b"}

HasDot(s) == s \in Emails

\* script.py main() from its start to the return of list_suppressions and
\* the prints that follow it: usage and validation exits, exit 1 on a
\* ServiceError of the listing, exit 0 when the listing is empty, otherwise
\* "Found suppression" with the run about to call delete_suppression.
ScriptList(sup, argv, listFails) ==
    IF Len(argv) # 1
    THEN [pc |-> "done", email |-> None, exit |-> "1", calls |-> << >>,
          logs |-> << "Usage" >>]
    ELSE IF ~HasAt(Strip(argv[1])) \/ ~HasDot(Strip(argv[1]))
    THEN [pc |-> "done", email |-> Strip(argv[1]), exit |-> "1", calls |-> << >>,
          logs |-> << "Invalid email address" >>]
    ELSE IF listFails
    THEN [pc |-> "done", email |-> Strip(argv[1]), exit |-> "1",
          calls |-> << ApiCall("list_suppressions", Strip(argv[1]), TRUE, << >>) >>,
          logs |-> << "Error listing suppressions" >>]
    ELSE IF Len(sup[Strip(argv[1])]) = 0
    THEN [pc |-> "done", email |-> Strip(argv[1]), exit |-> "0",
          calls |-> << ApiCall("list_suppressions", Strip(argv[1]), FALSE, << >>) >>,
          logs |-> << "NOT in the suppression list" >>]
    ELSE [pc |-> "listed", email |-> Strip(argv[1]), exit |-> None,
          calls |-> << ApiCall("list_suppressions", Strip(argv[1]), FALSE,
                               sup[Strip(argv[1])]) >>,
          logs |-> << "Found suppression" >>]

\* Whether the provider list holds an entry of that id.
Holds(sup, id) ==
    \E e \in DOMAIN sup : \E i \in 1..Len(sup[e]) : sup[e][i].id = id

\* script.py main() from delete_suppression to its end, for a run that
\* listed: the id is that of the first entry of the listing; the call
\* raises ServiceError when the provider fails or no longer holds the entry,
\* and the run exits 1; otherwise the entry leaves the list.
ScriptDelete(run, sup, deleteFails) ==
    IF deleteFails \/ ~Holds(sup, FirstEntry(run.calls[1].data).id)
    THEN [run |-> [run EXCEPT
                      !.pc = "done", !.exit = "1",
                      !.calls = @ \o << ApiCall("delete_suppression",
                                                FirstEntry(run.calls[1].data).id,
                                                TRUE, << >>) >>,
                      !.logs = @ \o << "Error deleting suppression" >>],
          suppressions |-> sup]
    ELSE [run |-> [run EXCEPT
                      !.pc = "done", !.exit = "0",
                      !.calls = @ \o << ApiCall("delete_suppression",
                                                FirstEntry(run.calls[1].data).id,
                                                FALSE, << >>) >>,
                      !.logs = @ \o << "Successfully removed suppression" >>],
          suppressions |-> DeleteSuppression(sup, FirstEntry(run.calls[1].data).id)]

\* The ids the provider has given out and that are still known: those of
\* the list and those a run of the script has listed and is about to
\* delete.
KnownIds(sup, runs) ==
    UNION { { sup[e][i].id : i \in 1..Len(sup[e]) } : e \in DOMAIN sup }
    \cup { FirstEntry(runs[r].calls[1].data).id :
                r \in { x \in DOMAIN runs : runs[x].pc = "listed" } }

\* An id for a new entry: the provider never gives an id out twice, so it
\* is none of the known ones.
FreshId(known, e) ==
    CHOOSE id \in { "sup-" \o ToString(n) \o "-" \o e : n \in 1..(Cardinality(known) + 1) } :
        id \notin known

\* The provider suppresses an address (a bounce or a complaint came in).
ProviderSuppress ==
    /\ \E e \in Emails, r \in Reasons :
        /\ Len(suppressions[e]) < MaxEntries
        /\ suppressions' =
            [suppressions EXCEPT ![e] =
                Append(@, [id |-> FreshId(KnownIds(suppressions, script), e),
                           reason |-> r])]
    /\ UNCHANGED << settings, logging, out, reqVars, setupVars, logVars, apiCalls,
                    svcResult, script >>

\* DELETE /api/v1/email-suppression/{email}: the route handler with the
\* service call it awaits; the provider may fail either call. The service
\* makes its provider calls without yielding to the event loop, and with
\* the Settings class as it is the execution ends at the read of
\* settings.<TenancyAttr>, before the first of them.
DeleteRoute ==
    /\ \E email \in Emails, listFails \in BOOLEAN, deleteFails \in BOOLEAN :
        LET r == RemoveSuppression(suppressions, email, listFails, deleteFails)
        IN  /\ suppressions' = r.suppressions
            /\ apiCalls' = r.calls
            /\ svcResult' =
                [route |-> "DELETE", email |-> email,
                 status |-> RemoveRouteStatus(r.raised), logs |-> r.logs,
                 wasSuppressed |-> Len(suppressions[email]) > 0,
                 listFails |-> listFails, deleteFails |-> deleteFails]
    /\ UNCHANGED << settings, logging, out, reqVars, setupVars, logVars, script >>

\* GET /api/v1/email-suppression/{email}.
GetRoute ==
    /\ \E email \in Emails, listFails \in BOOLEAN :
        LET r == CheckSuppression(suppressions, email, listFails)
        IN  /\ apiCalls' = r.calls
            /\ svcResult' =
                [route |-> "GET", email |-> email,
                 status |-> CheckRouteStatus(r.raised), logs |-> r.logs,
                 wasSuppressed |-> Len(suppressions[email]) > 0,
                 listFails |-> listFails, deleteFails |-> FALSE]
    /\ UNCHANGED << settings, logging, out, reqVars, setupVars, logVars,
                    suppressions, script >>

\* A run of script.py starts and goes as far as the return of its
\* list_suppressions call.
ScriptStart(r) ==
    /\ script[r].pc = "idle"
    /\ \E argv \in ScriptArgv, listFails \in BOOLEAN :
        script' = [script EXCEPT ![r] = ScriptList(suppressions, argv, listFails)]
    /\ UNCHANGED << settings, logging, out, reqVars, setupVars, logVars,
                    suppressions, apiCalls, svcResult >>

\* A run that listed calls delete_suppression and ends; between its two
\* provider calls the other run and the provider have acted or not.
ScriptFinish(r) ==
    /\ script[r].pc = "listed"
    /\ \E deleteFails \in BOOLEAN :
        /\ script' = [script EXCEPT ![r] = ScriptDelete(script[r], suppressions, deleteFails).run]
        /\ suppressions' = ScriptDelete(script[r], suppressions, deleteFails).suppressions
    /\ UNCHANGED << settings, logging, out, reqVars, setupVars, logVars, apiCalls,
                    svcResult >>

\* The service started with the production defaults, the provider's list
\* empty, no run of the script yet.
InitSvc == Init /\ settings = SettingsInit("production", "", "")

NextSvc ==
    \/ ProviderSuppress
    \/ DeleteRoute
    \/ GetRoute
    \/ \E r \in ScriptRuns :
        \/ ScriptStart(r)
        \/ ScriptFinish(r)

SpecSvc == InitSvc /\ [][NextSvc]_vars

\* The interceptor's steps are plain code between awaits: once the handler
\* has finished, the event loop resumes log_requests and runs it to its end.
FairSpec == Spec /\ \A t \in Tasks : WF_vars(Complete(t) \/ Fail(t))

\* ------------------------------------------------------------------ claims

\* The per-request state of section 4.4.
ReqState(t) ==
    CASE pc[t] = "idle" -> "NONE"
      [] pc[t] \in {"call_next", "log_done", "log_fail"} -> "IN_PROGRESS"
      [] pc[t] = "returned" -> "COMPLETED"
      [] pc[t] = "raised" -> "FAILED"
      [] OTHER -> "IN_PROGRESS"

\* Indices of the stdout entries the current request of task t wrote at
\* level lv.
EntriesOf(t, lv) == { i \in 1..Len(out[t]) : out[t][i].levelname = lv }

\* C1 (isolation): in every task's context get_request_id() returns that
\* request's own identifier or None, never an identifier another request's
\* set_request_id() installed.
C1_Isolation ==
    \A t \in Tasks : Get_request_id(ctx, t) \in {None, request_id[t]}

\* Two requests in flight at once, each reading its own, different identifier.
C1_Witness ==
    \E a \in Tasks, b \in Tasks :
        /\ a # b
        /\ pc[a] = "call_next" /\ pc[b] = "call_next"
        /\ Get_request_id(ctx, a) # None /\ Get_request_id(ctx, b) # None
        /\ Get_request_id(ctx, a) # Get_request_id(ctx, b)

\* C2 (tagging): every JSON entry written by a log call made while handling
\* a request, by the interceptor or by the handler, carries request_id equal
\* to the identifier the interceptor installed for that request.
C2_Tagging ==
    \A t \in Tasks : \A i \in 1..Len(out[t]) :
        out[t][i].rec.fmt = "json" =>
            /\ "request_id" \in DOMAIN out[t][i].rec.obj
            /\ out[t][i].rec.obj.request_id = request_id[t]

\* Two requests with different identifiers in flight at once, both with JSON
\* entries on stdout, the handler's entry among them.
C2_Witness ==
    \E a \in Tasks, b \in Tasks :
        /\ a # b
        /\ request_id[a] # request_id[b]
        /\ pc[a] = "call_next" /\ pc[b] = "call_next"
        /\ Len(out[a]) = 2 /\ Len(out[b]) >= 1
        /\ out[a][2].logger = "app.services.oci_email_suppression"
        /\ out[a][2].rec.fmt = "json" /\ out[b][1].rec.fmt = "json"

\* C3 (exhaustive-exit clear): whenever log_requests has handed control back
\* for a request, by a response or by an exception, clear_request_id() has
\* run exactly once for that request.
C3_ClearExactlyOnce ==
    \A t \in Tasks : pc[t] \in {"returned", "raised"} => clears[t] = 1

\* C4 (no stale identifier): whenever log_requests has handed control back,
\* get_request_id() in that context returns None.
C4_NoStaleId ==
    \A t \in Tasks : pc[t] \in {"returned", "raised"} => Get_request_id(ctx, t) = None

\* C5 (progress): a request whose downstream handler has returned or raised
\* eventually is COMPLETED or FAILED; it does not stay IN_PROGRESS.
C5_Progress ==
    \A t \in Tasks :
        (pc[t] \in {"log_done", "log_fail"}) ~> (ReqState(t) \in {"COMPLETED", "FAILED"})

\* One request COMPLETED after its handler answered and another FAILED after
\* its handler raised.
C5_Witness ==
    \E a \in Tasks, b \in Tasks :
        /\ ReqState(a) = "COMPLETED" /\ response[a] # None
        /\ ReqState(b) = "FAILED" /\ handlerExc[b] # None

\* C6 (failure pass-through): once the handler of a request raised E and
\* log_requests has ended, stdout holds exactly one ERROR entry for that
\* request, its message ends with E's message, it carries the traceback, and
\* the caller observes E itself.
C6_FailurePassThrough ==
    \A t \in Tasks :
        (pc[t] = "raised" /\ handlerExc[t] # None) =>
            /\ Cardinality(EntriesOf(t, "ERROR")) = 1
            /\ \A i \in EntriesOf(t, "ERROR") :
                /\ IF out[t][i].rec.fmt = "json"
                   THEN /\ out[t][i].rec.obj.message = "Request failed: " \o handlerExc[t]
                        /\ "exception" \in DOMAIN out[t][i].rec.obj
                   ELSE out[t][i].rec.lines > 1
            /\ exc[t] = handlerExc[t]

\* C7 (logging failures are self-contained): the outcome the caller of
\* log_requests observes is the handler's: the response when the handler
\* answered, the handler's exception when it raised, never the exception of
\* one of the interceptor's logging calls.
C7_LogFailureContained ==
    \A t \in Tasks :
        /\ pc[t] = "returned" => response[t] # None /\ handlerExc[t] = None
        /\ pc[t] = "raised" => handlerExc[t] # None /\ exc[t] = handlerExc[t]

\* C10 (extras at top level): every JSON entry written for a call with an
\* extras mapping has each key of the mapping as a top-level key, with the
\* value given.
C10_ExtrasTopLevel ==
    \A t \in Tasks : \A i \in 1..Len(out[t]) :
        out[t][i].rec.fmt = "json" =>
            \A k \in DOMAIN out[t][i].extra :
                /\ k \in DOMAIN out[t][i].rec.obj
                /\ out[t][i].rec.obj[k] = out[t][i].extra[k]

\* The minimum severity a log-level setting stands for: the severity of
\* that name, compared without regard to case, INFO for any other string.
SeverityOf(log_level) ==
    IF Upper(log_level) \in DOMAIN LevelNo THEN LevelNo[Upper(log_level)]
    ELSE LevelNo.INFO

\* C8 (severity filtering): once setup_logging() has completed with minimum
\* severity L, a call on an application logger at severity E writes exactly
\* one entry when E >= L and none when E < L.
C8_SeverityFilter ==
    (configured # NoSettings /\ lastLog.logger \in AppLoggers) =>
        lastLog.wrote =
            IF LevelNo[lastLog.levelname] >= SeverityOf(configured.log_level)
            THEN 1 ELSE 0

\* After a second setup_logging() call, with DEBUG as the minimum, a DEBUG
\* event of an application logger was written.
C8_Witness ==
    /\ setupCalls = 2
    /\ configured # NoSettings
    /\ SeverityOf(configured.log_level) = LevelNo.DEBUG
    /\ lastLog.logger \in AppLoggers
    /\ lastLog.levelname = "DEBUG"
    /\ lastLog.wrote = 1

\* C9 (idempotent reconfiguration): after one or more setup_logging() calls
\* the root logger has exactly one handler, with the formatter and the level
\* of the most recent call's settings, and a log event writes one entry at
\* most.
C9_IdempotentSetup ==
    setupCalls >= 1 =>
        /\ Len(logging.handlers) = 1
        /\ logging.handlers[1].formatter = ChooseFormatter(settings.log_format)
        /\ logging.handlers[1].level = SeverityOf(settings.log_level)
        /\ logging.rootLevel = SeverityOf(settings.log_level)
        /\ lastLog.wrote <= 1

\* C11 (context logger): every JSON entry written through an adapter of
\* get_logger_with_context(name, **context) has each context field as a
\* top-level key, with the context's value unless the call's own extras
\* name the same field.
C11_ContextFields ==
    call.via = "adapter" =>
        \A i \in 1..Len(call.wrote) :
            call.wrote[i].fmt = "json" =>
                \A k \in DOMAIN call.context :
                    /\ k \in DOMAIN call.wrote[i].obj
                    /\ k \notin DOMAIN call.extra =>
                            call.wrote[i].obj[k] = call.context[k]

\* C12 (request_id presence): a JSON entry has the key request_id exactly
\* when an identifier is installed in the calling context, and its value is
\* never null.
C12_RequestIdPresence ==
    \A i \in 1..Len(call.wrote) :
        call.wrote[i].fmt = "json" =>
            /\ ("request_id" \in DOMAIN call.wrote[i].obj) <=> (call.rid # None)
            /\ "request_id" \in DOMAIN call.wrote[i].obj =>
                    call.wrote[i].obj.request_id # None

\* C13 (formatting errors degrade by omission): in JSON mode a call whose
\* extras hold a value that cannot be serialised does not raise and still
\* writes its entry, without the field or with the field as a string.
C13_DegradeByOmission ==
    (/\ call.via # None
     /\ \E k \in DOMAIN call.extra : call.extra[k] \in Unserializable
     /\ logging.handlers[1].formatter = "JSONFormatter"
     /\ logging.handlers[1].level <= LevelNo.ERROR) =>
        /\ ~call.raised
        /\ \E i \in 1..Len(call.wrote) : call.wrote[i].fmt = "json"

\* C14 (one line per event): every entry written to stdout, in JSON and in
\* text mode, with or without exception information, occupies exactly one
\* line.
C14_OneLinePerEvent ==
    \A t \in Tasks : \A i \in 1..Len(out[t]) : out[t][i].rec.lines = 1

\* The spellings of 'json' among the format values drawn.
JsonSpellings == {"json", "JSON"}

\* C15 (format fallback): a completed setup_logging() installs the JSON
\* formatter exactly when the format value is a spelling of 'json' and the
\* text formatter for every other value; when a call fails, it fails with
\* every format value alike, so no format value is what makes it fail.
C15_FormatFallback ==
    /\ configured # NoSettings =>
            logging.handlers[1].formatter =
                IF configured.log_format \in JsonSpellings THEN "JSONFormatter"
                ELSE "TextFormatter"
    /\ (setupCalls >= 1 /\ configured # settings) =>
            \A f \in FormatInputs \ {""} :
                SetupLogging(LoggingDefault, [settings EXCEPT !.log_format = f]).raised

\* A second setup_logging() call, with a format value that is neither json
\* nor text, completed and installed the text formatter.
C15_Witness ==
    /\ setupCalls = 2
    /\ configured = settings
    /\ settings.log_format = "xml"
    /\ logging.handlers[1].formatter = "TextFormatter"

\* C16 (level fallback): every setup_logging() call completes, whatever the
\* log-level string, and leaves the root logger and its handler at the
\* severity that string names, INFO when it names none.
C16_LevelFallback ==
    setupCalls >= 1 =>
        /\ configured = settings
        /\ logging.rootLevel = SeverityOf(settings.log_level)
        /\ \A i \in 1..Len(logging.handlers) :
                logging.handlers[i].level = SeverityOf(settings.log_level)

\* C17 (configuration frozen after startup): no step of request handling
\* changes the settings or the logging configuration: root level, root
\* handlers with their formatter and level, and the uvicorn levels stay as
\* the startup call of setup_logging() left them.
C17_ConfigFrozen == [][logging' = logging /\ settings' = settings]_vars

\* One request completed and another failed after its handler raised, both
\* with entries on stdout, under the configuration of the startup call.
C17_Witness ==
    \E a \in Tasks, b \in Tasks :
        /\ pc[a] = "returned" /\ Len(out[a]) >= 2
        /\ pc[b] = "raised" /\ handlerExc[b] # None /\ Len(out[b]) >= 2
        /\ logging = SetupLogging(LoggingDefault, settings).logging

\* C18 (remove of a non-suppressed email): a DELETE for an address the
\* provider holds no entry for, with the provider answering, yields 404 and
\* no delete_suppression call; 500 is returned only when a provider call
\* failed.
C18_NotSuppressedIs404 ==
    svcResult.route = "DELETE" =>
        /\ (~svcResult.wasSuppressed /\ ~svcResult.listFails) =>
                /\ svcResult.status = "404"
                /\ \A i \in 1..Len(apiCalls) : apiCalls[i].op # "delete_suppression"
        /\ svcResult.status = "500" =>
                \E i \in 1..Len(apiCalls) : apiCalls[i].failed

\* The interceptor's three records and the handler's, as entries of stdout.
IsReceived(e) ==
    e.logger = "app.main" /\ e.levelname = "INFO" /\ "client_host" \in DOMAIN e.extra

IsCompleted(e) ==
    e.logger = "app.main" /\ e.levelname = "INFO" /\ "status_code" \in DOMAIN e.extra

IsFailed(e) ==
    e.logger = "app.main" /\ e.levelname = "ERROR" /\ "error" \in DOMAIN e.extra

IsHandlerEntry(e) == e.logger # "app.main"

\* C19 (per-request event ordering): once log_requests has ended for a
\* request whose handler finished, the request's entries are one 'Request
\* received', then the handler's entries, then one terminal entry, which is
\* 'Request completed' when the handler returned and 'Request failed' when
\* it raised; the terminal entry was written with the identifier still
\* installed and the identifier is cleared afterwards.
C19_EventOrdering ==
    \A t \in Tasks :
        (pc[t] \in {"returned", "raised"} /\ (response[t] # None \/ handlerExc[t] # None)) =>
            /\ Len(out[t]) >= 2
            /\ IsReceived(out[t][1])
            /\ \A i \in 2..(Len(out[t]) - 1) : IsHandlerEntry(out[t][i])
            /\ IF handlerExc[t] = None THEN IsCompleted(out[t][Len(out[t])])
               ELSE IsFailed(out[t][Len(out[t])])
            /\ out[t][Len(out[t])].rec.fmt = "json" =>
                    ("request_id" \in DOMAIN out[t][Len(out[t])].rec.obj
                     /\ out[t][Len(out[t])].rec.obj.request_id = request_id[t])
            /\ Get_request_id(ctx, t) = None

\* C20 (identifier uniqueness): two requests in flight at the same moment
\* never hold the same correlation identifier.
C20_UniqueInFlight ==
    \A a \in Tasks, b \in Tasks :
        (a # b /\ ReqState(a) = "IN_PROGRESS" /\ ReqState(b) = "IN_PROGRESS") =>
            request_id[a] # request_id[b]

\* C21 (fixed keys are authoritative): in every JSON entry timestamp, level,
\* logger and message are those of the event, request_id is the identifier
\* of the calling context (absent when there is none) and exception is the
\* rendered exception of the event, whatever the extras of the call name.
C21_FixedKeysAuthoritative ==
    \A i \in 1..Len(call.wrote) :
        call.wrote[i].fmt = "json" =>
            /\ call.wrote[i].obj.timestamp = NowIso
            /\ call.wrote[i].obj.level = call.levelname
            /\ call.wrote[i].obj.logger = "app.main"
            /\ call.wrote[i].obj.message = "event"
            /\ IF call.rid = None THEN "request_id" \notin DOMAIN call.wrote[i].obj
               ELSE call.wrote[i].obj.request_id = call.rid
            /\ call.exc_info # None =>
                    call.wrote[i].obj.exception = FormatException(call.exc_info)

\* Positions of the delete_suppression calls among the provider calls of
\* one execution.
DeleteCalls(calls) == { i \in 1..Len(calls) : calls[i].op = "delete_suppression" }

\* The calls of one execution of the removal for an address: at most one
\* delete_suppression, right after a list_suppressions for that address that
\* returned a non-empty listing, with the id of the listing's first entry;
\* none after a failed or empty listing.
CheckBeforeDelete(calls, email) ==
    /\ Cardinality(DeleteCalls(calls)) <= 1
    /\ \A i \in DeleteCalls(calls) :
        /\ i > 1
        /\ calls[i - 1].op = "list_suppressions"
        /\ calls[i - 1].arg = email
        /\ ~calls[i - 1].failed
        /\ Len(calls[i - 1].data) > 0
        /\ calls[i].arg = calls[i - 1].data[1].id
    /\ \A i \in 1..Len(calls) :
        (calls[i].op = "list_suppressions"
         /\ (calls[i].failed \/ Len(calls[i].data) = 0)) => DeleteCalls(calls) = {}

\* C22 (check before delete): an execution of the removal, by the service
\* or by a run of the script, calls delete_suppression at most once, right
\* after a list_suppressions call for the same address that returned a
\* non-empty listing, and with the id of that listing's first entry; after a
\* failed or empty listing there is no delete call. This holds of every run
\* whatever the other run and the provider do between its two calls.
C22_CheckBeforeDelete ==
    /\ svcResult.route = "DELETE" => CheckBeforeDelete(apiCalls, svcResult.email)
    /\ \A r \in ScriptRuns : CheckBeforeDelete(script[r].calls, script[r].email)

\* A run of the script that listed two entries of the address and deleted
\* the first: the second is what the provider still holds.
C22_Witness ==
    \E r \in ScriptRuns :
        /\ script[r].pc = "done"
        /\ script[r].exit = "0"
        /\ Len(script[r].calls) = 2
        /\ Len(script[r].calls[1].data) = 2
        /\ script[r].calls[2].op = "delete_suppression" /\ ~script[r].calls[2].failed
        /\ suppressions[script[r].email] = << script[r].calls[1].data[2] >>

====
